---- MODULE Spec2Model ----
\* Buffer manager of BadgerDB (src/BufMgr/src/buffer.cpp): a pool of NumBufs
\* frames, a clock (second chance) allocator, a page identity index and the
\* pin / unpin / flush / dispose protocol.  Every public method is one atomic
\* action: the manager has no internal concurrency.
EXTENDS Integers, FiniteSets, Sequences, TLC

\* ---------------------------------------------------------------- bounds
NumBufs == 2      \* constructor argument bufs
MaxPage == 2      \* page numbers a file can hold: 1..MaxPage
MaxPin == 2       \* cap of the pin count reached by repeated fetches
MaxCalls == 5     \* calls made on the manager in one run

Frames == 0 .. (NumBufs - 1)
PageIds == 1 .. MaxPage

\* The File objects handed to the manager: the file of a call and another one.
Files == {1, 2}

\* Page contents.  The manager never looks into a page: two values tell a
\* page that was written from one that was not.
Data == {0, 1}

NullFile == 0          \* the NULL File* of a cleared descriptor
INVALID_NUMBER == 0    \* Page::INVALID_NUMBER
NoFrame == -1          \* outcome of a lookup that throws HashNotFoundException
NoPage == -1           \* the file has no page at this number

VARIABLES bufDescTable, bufPool, hashTable, clockHand, files, last, calls

vars == <<bufDescTable, bufPool, hashTable, clockHand, files, last, calls>>

\* ------------------------------------------------------- frame descriptor
\* BufDesc::Clear(): the empty descriptor.
Clear ==
  [valid |-> FALSE, file |-> NullFile, pageNo |-> INVALID_NUMBER,
   pinCnt |-> 0, dirty |-> FALSE, refbit |-> FALSE]

\* BufDesc::Set(file, pageNo): a freshly loaded, pinned, clean page.
Set(f, p) ==
  [valid |-> TRUE, file |-> f, pageNo |-> p,
   pinCnt |-> 1, dirty |-> FALSE, refbit |-> TRUE]

\* ------------------------------------------------------ page identity index
\* BufHashTbl::lookup: the frame of (f, p), NoFrame when it throws.
lookup(h, f, p) == h[<<f, p>>]

\* BufHashTbl::insert
insert(h, f, p, fr) == [h EXCEPT ![<<f, p>>] = fr]

\* BufHashTbl::remove
remove(h, f, p) == [h EXCEPT ![<<f, p>>] = NoFrame]

\* ------------------------------------------------------- file collaborator
\* File::writePage(page): stores the buffer at the number it carries.
writePage(fs, f, pg) == [fs EXCEPT ![f][pg.num] = pg.data]

\* File::readPage(p): the page as a buffer (the caller checks existence).
filePage(fs, f, p) == [num |-> p, data |-> fs[f][p]]

\* File::deletePage(p)
deletePage(fs, f, p) == [fs EXCEPT ![f][p] = NoPage]

\* pages currently in file f
PagesOf(fs, f) == {p \in PageIds : fs[f][p] # NoPage}

\* ------------------------------------------------------------ clock hand
advanceClock(hand) == (hand + 1) % NumBufs

\* ---------------------------------------------------------------- allocBuf
\* One iteration of the for loop of allocBuf, i = 0 .. numBufs, on the
\* manager state s = [desc, hash, hand, files, writes].  The result carries
\* ok = FALSE when the loop ends and BufferExceededException is thrown.
\* allocBuf as it would be without the pinCnt test of line 75: a frame whose
\* reference bit is clear is evicted whatever its pin count.
RECURSIVE allocBufLoop_noPinCheck(_, _)
allocBufLoop_noPinCheck(i, s) ==
  IF i > NumBufs
  THEN [desc |-> s.desc, hash |-> s.hash, hand |-> s.hand, files |-> s.files,
        writes |-> s.writes, ok |-> FALSE, frame |-> NoFrame]
  ELSE
    LET h == advanceClock(s.hand)
        d == s.desc[h]
    IN
    IF d.valid = FALSE
    THEN [desc |-> s.desc, hash |-> s.hash, hand |-> h, files |-> s.files,
          writes |-> s.writes, ok |-> TRUE, frame |-> h]
    ELSE IF d.refbit = TRUE
    THEN allocBufLoop_noPinCheck(i + 1,
           [s EXCEPT !.hand = h, !.desc = [s.desc EXCEPT ![h].refbit = FALSE]])
    ELSE [desc |-> [s.desc EXCEPT ![h] = Clear],
          hash |-> remove(s.hash, d.file, d.pageNo),
          hand |-> h,
          files |-> IF d.dirty = TRUE
                    THEN writePage(s.files, d.file, s.pool[h])
                    ELSE s.files,
          writes |-> IF d.dirty = TRUE THEN s.writes + 1 ELSE s.writes,
          ok |-> TRUE, frame |-> h]

\* allocBuf as it would be without the refbit = false of line 72: a
\* referenced frame is passed over and stays referenced.
RECURSIVE allocBufLoop_noRefClear(_, _)
allocBufLoop_noRefClear(i, s) ==
  IF i > NumBufs
  THEN [desc |-> s.desc, hash |-> s.hash, hand |-> s.hand, files |-> s.files,
        writes |-> s.writes, ok |-> FALSE, frame |-> NoFrame]
  ELSE
    LET h == advanceClock(s.hand)
        d == s.desc[h]
    IN
    IF d.valid = FALSE
    THEN [desc |-> s.desc, hash |-> s.hash, hand |-> h, files |-> s.files,
          writes |-> s.writes, ok |-> TRUE, frame |-> h]
    ELSE IF d.refbit = TRUE
    THEN allocBufLoop_noRefClear(i + 1, [s EXCEPT !.hand = h])
    ELSE IF d.pinCnt > 0
    THEN allocBufLoop_noRefClear(i + 1, [s EXCEPT !.hand = h])
    ELSE [desc |-> [s.desc EXCEPT ![h] = Clear],
          hash |-> remove(s.hash, d.file, d.pageNo),
          hand |-> h,
          files |-> IF d.dirty = TRUE
                    THEN writePage(s.files, d.file, s.pool[h])
                    ELSE s.files,
          writes |-> IF d.dirty = TRUE THEN s.writes + 1 ELSE s.writes,
          ok |-> TRUE, frame |-> h]

\* allocBuf as it would be with the loop of line 65 bounded by i < numBufs:
\* one inspection per frame and no more.
RECURSIVE allocBufLoop_shortScan(_, _)
allocBufLoop_shortScan(i, s) ==
  IF i >= NumBufs
  THEN [desc |-> s.desc, hash |-> s.hash, hand |-> s.hand, files |-> s.files,
        writes |-> s.writes, ok |-> FALSE, frame |-> NoFrame]
  ELSE
    LET h == advanceClock(s.hand)
        d == s.desc[h]
    IN
    IF d.valid = FALSE
    THEN [desc |-> s.desc, hash |-> s.hash, hand |-> h, files |-> s.files,
          writes |-> s.writes, ok |-> TRUE, frame |-> h]
    ELSE IF d.refbit = TRUE
    THEN allocBufLoop_shortScan(i + 1,
           [s EXCEPT !.hand = h, !.desc = [s.desc EXCEPT ![h].refbit = FALSE]])
    ELSE IF d.pinCnt > 0
    THEN allocBufLoop_shortScan(i + 1, [s EXCEPT !.hand = h])
    ELSE [desc |-> [s.desc EXCEPT ![h] = Clear],
          hash |-> remove(s.hash, d.file, d.pageNo),
          hand |-> h,
          files |-> IF d.dirty = TRUE
                    THEN writePage(s.files, d.file, s.pool[h])
                    ELSE s.files,
          writes |-> IF d.dirty = TRUE THEN s.writes + 1 ELSE s.writes,
          ok |-> TRUE, frame |-> h]

\* allocBuf as it would be without the hashTable->remove of line 81.
RECURSIVE allocBufLoop_noRemove(_, _)
allocBufLoop_noRemove(i, s) ==
  IF i > NumBufs
  THEN [desc |-> s.desc, hash |-> s.hash, hand |-> s.hand, files |-> s.files,
        writes |-> s.writes, ok |-> FALSE, frame |-> NoFrame]
  ELSE
    LET h == advanceClock(s.hand)
        d == s.desc[h]
    IN
    IF d.valid = FALSE
    THEN [desc |-> s.desc, hash |-> s.hash, hand |-> h, files |-> s.files,
          writes |-> s.writes, ok |-> TRUE, frame |-> h]
    ELSE IF d.refbit = TRUE
    THEN allocBufLoop_noRemove(i + 1,
           [s EXCEPT !.hand = h, !.desc = [s.desc EXCEPT ![h].refbit = FALSE]])
    ELSE IF d.pinCnt > 0
    THEN allocBufLoop_noRemove(i + 1, [s EXCEPT !.hand = h])
    ELSE [desc |-> [s.desc EXCEPT ![h] = Clear],
          hash |-> s.hash,
          hand |-> h,
          files |-> IF d.dirty = TRUE
                    THEN writePage(s.files, d.file, s.pool[h])
                    ELSE s.files,
          writes |-> IF d.dirty = TRUE THEN s.writes + 1 ELSE s.writes,
          ok |-> TRUE, frame |-> h]

\* allocBuf as it would be without the writePage of line 79.
RECURSIVE allocBufLoop_noWriteBack(_, _)
allocBufLoop_noWriteBack(i, s) ==
  IF i > NumBufs
  THEN [desc |-> s.desc, hash |-> s.hash, hand |-> s.hand, files |-> s.files,
        writes |-> s.writes, ok |-> FALSE, frame |-> NoFrame]
  ELSE
    LET h == advanceClock(s.hand)
        d == s.desc[h]
    IN
    IF d.valid = FALSE
    THEN [desc |-> s.desc, hash |-> s.hash, hand |-> h, files |-> s.files,
          writes |-> s.writes, ok |-> TRUE, frame |-> h]
    ELSE IF d.refbit = TRUE
    THEN allocBufLoop_noWriteBack(i + 1,
           [s EXCEPT !.hand = h, !.desc = [s.desc EXCEPT ![h].refbit = FALSE]])
    ELSE IF d.pinCnt > 0
    THEN allocBufLoop_noWriteBack(i + 1, [s EXCEPT !.hand = h])
    ELSE [desc |-> [s.desc EXCEPT ![h] = Clear],
          hash |-> remove(s.hash, d.file, d.pageNo),
          hand |-> h,
          files |-> s.files,
          writes |-> s.writes,
          ok |-> TRUE, frame |-> h]

RECURSIVE allocBufLoop(_, _)
allocBufLoop(i, s) ==
  IF i > NumBufs
  THEN [desc |-> s.desc, hash |-> s.hash, hand |-> s.hand, files |-> s.files,
        writes |-> s.writes, ok |-> FALSE, frame |-> NoFrame]
  ELSE
    LET h == advanceClock(s.hand)
        d == s.desc[h]
    IN
    IF d.valid = FALSE
    THEN [desc |-> s.desc, hash |-> s.hash, hand |-> h, files |-> s.files,
          writes |-> s.writes, ok |-> TRUE, frame |-> h]
    ELSE IF d.refbit = TRUE
    THEN allocBufLoop(i + 1,
           [s EXCEPT !.hand = h, !.desc = [s.desc EXCEPT ![h].refbit = FALSE]])
    ELSE IF d.pinCnt > 0
    THEN allocBufLoop(i + 1, [s EXCEPT !.hand = h])
    ELSE [desc |-> [s.desc EXCEPT ![h] = Clear],
          hash |-> remove(s.hash, d.file, d.pageNo),
          hand |-> h,
          files |-> IF d.dirty = TRUE
                    THEN writePage(s.files, d.file, s.pool[h])
                    ELSE s.files,
          writes |-> IF d.dirty = TRUE THEN s.writes + 1 ELSE s.writes,
          ok |-> TRUE, frame |-> h]

allocBuf(desc, pool, hash, hand, fs) ==
  allocBufLoop(0, [desc |-> desc, pool |-> pool, hash |-> hash, hand |-> hand,
                   files |-> fs, writes |-> 0])

\* ------------------------------------------------------------ last call
\* What the last call was and how it ended (history of the call only);
\* again: the call repeats the call before it, which had failed with
\* BufferExceededException.
Call(op, f, p, dirty, err, fr, hit, reads, writes) ==
  [op |-> op, file |-> f, pageNo |-> p, dirty |-> dirty, err |-> err,
   frame |-> fr, hit |-> hit, reads |-> reads, writes |-> writes,
   again |-> (last.op = op /\ last.file = f /\ last.pageNo = p
                /\ last.err = "BufferExceeded")]

\* One more call is made, while the run has calls left.
Counted == calls < MaxCalls /\ calls' = calls + 1

\* ------------------------------------------------------------ constructor
BufMgr ==
  /\ bufDescTable = [i \in Frames |-> Clear]
  /\ bufPool = [i \in Frames |-> [num |-> INVALID_NUMBER, data |-> 0]]
  /\ hashTable = [k \in Files \X PageIds |-> NoFrame]
  /\ clockHand = NumBufs - 1
  /\ files = [f \in Files |-> [p \in PageIds |-> IF p = 1 THEN 0 ELSE NoPage]]
  /\ calls = 0
  /\ last = [op |-> "new", file |-> NullFile, pageNo |-> INVALID_NUMBER,
             dirty |-> FALSE, err |-> "none", frame |-> NoFrame, hit |-> FALSE,
             reads |-> 0, writes |-> 0, again |-> FALSE]

Init == BufMgr

\* ---------------------------------------------------------------- readPage
\* readPage as it would be without the pinCnt++ of line 108.
readPage_hitNoPin(f, p) ==
  LET fr == lookup(hashTable, f, p)
      a == allocBuf(bufDescTable, bufPool, hashTable, clockHand, files)
  IN
  /\ Counted
  /\ IF fr # NoFrame
     THEN
       /\ bufDescTable[fr].pinCnt < MaxPin
       /\ bufDescTable' = [bufDescTable EXCEPT ![fr].refbit = TRUE]
       /\ UNCHANGED <<bufPool, hashTable, clockHand, files>>
       /\ last' = Call("readPage", f, p, FALSE, "none", fr, TRUE, 0, 0)
     ELSE IF ~a.ok
     THEN
       /\ bufDescTable' = a.desc
       /\ clockHand' = a.hand
       /\ hashTable' = a.hash
       /\ files' = a.files
       /\ UNCHANGED bufPool
       /\ last' = Call("readPage", f, p, FALSE, "BufferExceeded", NoFrame,
                       FALSE, 0, a.writes)
     ELSE IF a.files[f][p] = NoPage
     THEN
       /\ bufDescTable' = a.desc
       /\ clockHand' = a.hand
       /\ hashTable' = a.hash
       /\ files' = a.files
       /\ UNCHANGED bufPool
       /\ last' = Call("readPage", f, p, FALSE, "InvalidPage", a.frame,
                       FALSE, 1, a.writes)
     ELSE
       /\ bufPool' = [bufPool EXCEPT ![a.frame] = filePage(a.files, f, p)]
       /\ hashTable' = insert(a.hash, f, p, a.frame)
       /\ bufDescTable' = [a.desc EXCEPT ![a.frame] = [Set(f, p) EXCEPT !.refbit = TRUE]]
       /\ clockHand' = a.hand
       /\ files' = a.files
       /\ last' = Call("readPage", f, p, FALSE, "none", a.frame, FALSE, 1,
                       a.writes)

\* readPage as it would be without the hashTable->insert of line 113.
readPage_noInsert(f, p) ==
  LET fr == lookup(hashTable, f, p)
      a == allocBuf(bufDescTable, bufPool, hashTable, clockHand, files)
  IN
  /\ Counted
  /\ IF fr # NoFrame
     THEN
       /\ bufDescTable[fr].pinCnt < MaxPin
       /\ bufDescTable' = [bufDescTable EXCEPT ![fr].pinCnt = @ + 1,
                                               ![fr].refbit = TRUE]
       /\ UNCHANGED <<bufPool, hashTable, clockHand, files>>
       /\ last' = Call("readPage", f, p, FALSE, "none", fr, TRUE, 0, 0)
     ELSE IF ~a.ok
     THEN
       /\ bufDescTable' = a.desc
       /\ clockHand' = a.hand
       /\ hashTable' = a.hash
       /\ files' = a.files
       /\ UNCHANGED bufPool
       /\ last' = Call("readPage", f, p, FALSE, "BufferExceeded", NoFrame,
                       FALSE, 0, a.writes)
     ELSE IF a.files[f][p] = NoPage
     THEN
       /\ bufDescTable' = a.desc
       /\ clockHand' = a.hand
       /\ hashTable' = a.hash
       /\ files' = a.files
       /\ UNCHANGED bufPool
       /\ last' = Call("readPage", f, p, FALSE, "InvalidPage", a.frame,
                       FALSE, 1, a.writes)
     ELSE
       /\ bufPool' = [bufPool EXCEPT ![a.frame] = filePage(a.files, f, p)]
       /\ hashTable' = a.hash
       /\ bufDescTable' = [a.desc EXCEPT ![a.frame] = [Set(f, p) EXCEPT !.refbit = TRUE]]
       /\ clockHand' = a.hand
       /\ files' = a.files
       /\ last' = Call("readPage", f, p, FALSE, "none", a.frame, FALSE, 1,
                       a.writes)

readPage(f, p) ==
  LET fr == lookup(hashTable, f, p)
      a == allocBuf(bufDescTable, bufPool, hashTable, clockHand, files)
  IN
  /\ Counted
  /\ IF fr # NoFrame
     THEN \* index hit
       /\ bufDescTable[fr].pinCnt < MaxPin
       /\ bufDescTable' = [bufDescTable EXCEPT ![fr].pinCnt = @ + 1,
                                               ![fr].refbit = TRUE]
       /\ UNCHANGED <<bufPool, hashTable, clockHand, files>>
       /\ last' = Call("readPage", f, p, FALSE, "none", fr, TRUE, 0, 0)
     ELSE IF ~a.ok
     THEN \* HashNotFoundException, then allocBuf throws
       /\ bufDescTable' = a.desc
       /\ clockHand' = a.hand
       /\ hashTable' = a.hash
       /\ files' = a.files
       /\ UNCHANGED bufPool
       /\ last' = Call("readPage", f, p, FALSE, "BufferExceeded", NoFrame,
                       FALSE, 0, a.writes)
     ELSE IF a.files[f][p] = NoPage
     THEN \* file->readPage throws: the file has no such page
       /\ bufDescTable' = a.desc
       /\ clockHand' = a.hand
       /\ hashTable' = a.hash
       /\ files' = a.files
       /\ UNCHANGED bufPool
       /\ last' = Call("readPage", f, p, FALSE, "InvalidPage", a.frame,
                       FALSE, 1, a.writes)
     ELSE
       /\ bufPool' = [bufPool EXCEPT ![a.frame] = filePage(a.files, f, p)]
       /\ hashTable' = insert(a.hash, f, p, a.frame)
       /\ bufDescTable' = [a.desc EXCEPT ![a.frame] = [Set(f, p) EXCEPT !.refbit = TRUE]]
       /\ clockHand' = a.hand
       /\ files' = a.files
       /\ last' = Call("readPage", f, p, FALSE, "none", a.frame, FALSE, 1,
                       a.writes)

\* --------------------------------------------------------------- unPinPage
\* unPinPage as it would be without the catch of line 141: the
\* HashNotFoundException of the lookup reaches the caller.
unPinPage_missThrows(f, p, dirty) ==
  LET fr == lookup(hashTable, f, p) IN
  /\ Counted
  /\ IF fr = NoFrame
     THEN
       /\ UNCHANGED <<bufDescTable, bufPool, hashTable, clockHand, files>>
       /\ last' = Call("unPinPage", f, p, dirty, "HashNotFound", NoFrame,
                       FALSE, 0, 0)
     ELSE IF bufDescTable[fr].pinCnt = 0
     THEN
       /\ UNCHANGED <<bufDescTable, bufPool, hashTable, clockHand, files>>
       /\ last' = Call("unPinPage", f, p, dirty, "PageNotPinned", fr, TRUE, 0, 0)
     ELSE
       /\ bufDescTable' = [bufDescTable EXCEPT ![fr].dirty = TRUE,
                                               ![fr].pinCnt = @ - 1]
       /\ UNCHANGED <<bufPool, hashTable, clockHand, files>>
       /\ last' = Call("unPinPage", f, p, dirty, "none", fr, TRUE, 0, 0)

\* unPinPage as it would be without the pinCnt == 0 test of line 135.
unPinPage_noZeroCheck(f, p, dirty) ==
  LET fr == lookup(hashTable, f, p) IN
  /\ Counted
  /\ IF fr = NoFrame
     THEN
       /\ UNCHANGED <<bufDescTable, bufPool, hashTable, clockHand, files>>
       /\ last' = Call("unPinPage", f, p, dirty, "none", NoFrame, FALSE, 0, 0)
     ELSE
       /\ bufDescTable' = [bufDescTable EXCEPT ![fr].dirty = TRUE,
                                               ![fr].pinCnt = @ - 1]
       /\ UNCHANGED <<bufPool, hashTable, clockHand, files>>
       /\ last' = Call("unPinPage", f, p, dirty, "none", fr, TRUE, 0, 0)

unPinPage(f, p, dirty) ==
  LET fr == lookup(hashTable, f, p) IN
  /\ Counted
  /\ IF fr = NoFrame
     THEN \* HashNotFoundException: return
       /\ UNCHANGED <<bufDescTable, bufPool, hashTable, clockHand, files>>
       /\ last' = Call("unPinPage", f, p, dirty, "none", NoFrame, FALSE, 0, 0)
     ELSE IF bufDescTable[fr].pinCnt = 0
     THEN
       /\ UNCHANGED <<bufDescTable, bufPool, hashTable, clockHand, files>>
       /\ last' = Call("unPinPage", f, p, dirty, "PageNotPinned", fr, TRUE, 0, 0)
     ELSE
       /\ bufDescTable' = [bufDescTable EXCEPT ![fr].dirty = TRUE,
                                               ![fr].pinCnt = @ - 1]
       /\ UNCHANGED <<bufPool, hashTable, clockHand, files>>
       /\ last' = Call("unPinPage", f, p, dirty, "none", fr, TRUE, 0, 0)

\* --------------------------------------------------------------- flushFile
\* The scan of flushFile from frame i on, on s = [desc, hash, files, writes];
\* err = "PagePinned" when the scan stops at a pinned frame of the file.
\* The scan of flushFile as it would be without the writePage of line 163.
RECURSIVE flushFileLoop_noWrite(_, _, _)
flushFileLoop_noWrite(i, f, s) ==
  IF i >= NumBufs
  THEN [desc |-> s.desc, hash |-> s.hash, files |-> s.files,
        writes |-> s.writes, err |-> "none", frame |-> NoFrame]
  ELSE
    LET d == s.desc[i] IN
    IF d.file = f
    THEN IF d.pinCnt > 0
         THEN [desc |-> s.desc, hash |-> s.hash, files |-> s.files,
               writes |-> s.writes, err |-> "PagePinned", frame |-> i]
         ELSE flushFileLoop_noWrite(i + 1, f,
                [s EXCEPT !.hash = remove(s.hash, f, d.pageNo),
                          !.desc = [s.desc EXCEPT ![i] = Clear]])
    ELSE flushFileLoop_noWrite(i + 1, f, s)

\* The scan of flushFile as it would be if a pinned frame of the file were
\* passed over instead of throwing at line 160.
RECURSIVE flushFileLoop_skipPinned(_, _, _)
flushFileLoop_skipPinned(i, f, s) ==
  IF i >= NumBufs
  THEN [desc |-> s.desc, hash |-> s.hash, files |-> s.files,
        writes |-> s.writes, err |-> "none", frame |-> NoFrame]
  ELSE
    LET d == s.desc[i] IN
    IF d.file = f /\ d.pinCnt = 0
    THEN flushFileLoop_skipPinned(i + 1, f,
           [s EXCEPT !.files = IF d.dirty = TRUE
                               THEN writePage(s.files, d.file, s.pool[i])
                               ELSE s.files,
                     !.writes = IF d.dirty = TRUE THEN @ + 1 ELSE @,
                     !.hash = remove(s.hash, f, d.pageNo),
                     !.desc = [s.desc EXCEPT ![i] = Clear]])
    ELSE flushFileLoop_skipPinned(i + 1, f, s)

RECURSIVE flushFileLoop(_, _, _)
flushFileLoop(i, f, s) ==
  IF i >= NumBufs
  THEN [desc |-> s.desc, hash |-> s.hash, files |-> s.files,
        writes |-> s.writes, err |-> "none", frame |-> NoFrame]
  ELSE
    LET d == s.desc[i] IN
    IF d.file = f
    THEN IF d.pinCnt > 0
         THEN [desc |-> s.desc, hash |-> s.hash, files |-> s.files,
               writes |-> s.writes, err |-> "PagePinned", frame |-> i]
         ELSE flushFileLoop(i + 1, f,
                [s EXCEPT !.files = IF d.dirty = TRUE
                                    THEN writePage(s.files, d.file, s.pool[i])
                                    ELSE s.files,
                          !.writes = IF d.dirty = TRUE THEN @ + 1 ELSE @,
                          !.hash = remove(s.hash, f, d.pageNo),
                          !.desc = [s.desc EXCEPT ![i] = Clear]])
    ELSE flushFileLoop(i + 1, f, s)

flushFile(f) ==
  LET r == flushFileLoop(0, f, [desc |-> bufDescTable, pool |-> bufPool,
                                hash |-> hashTable, files |-> files,
                                writes |-> 0])
  IN /\ Counted
     /\ bufDescTable' = r.desc
     /\ hashTable' = r.hash
     /\ files' = r.files
     /\ UNCHANGED <<bufPool, clockHand>>
     /\ last' = Call("flushFile", f, INVALID_NUMBER, FALSE, r.err, r.frame,
                     FALSE, 0, r.writes)

\* --------------------------------------------------------------- allocPage
\* File::allocatePage(): the file takes a number it does not hold and stores
\* an empty page there.
allocatePage(fs, f, np) == [fs EXCEPT ![f][np] = 0]

\* allocPage as it would be without the Set of line 180.
allocPage_noSet(f) ==
  \E np \in PageIds \ PagesOf(files, f) :
    LET fs1 == allocatePage(files, f, np)
        a == allocBuf(bufDescTable, bufPool, hashTable, clockHand, fs1)
    IN
    /\ Counted
    /\ IF ~a.ok
       THEN
         /\ bufDescTable' = a.desc
         /\ clockHand' = a.hand
         /\ hashTable' = a.hash
         /\ files' = a.files
         /\ UNCHANGED bufPool
         /\ last' = Call("allocPage", f, np, FALSE, "BufferExceeded", NoFrame,
                         FALSE, 0, a.writes)
       ELSE
         /\ hashTable' = insert(a.hash, f, np, a.frame)
         /\ bufPool' = [bufPool EXCEPT ![a.frame] = filePage(a.files, f, np)]
         /\ bufDescTable' = a.desc
         /\ clockHand' = a.hand
         /\ files' = a.files
         /\ last' = Call("allocPage", f, np, FALSE, "none", a.frame, FALSE, 1,
                         a.writes)

allocPage(f) ==
  \E np \in PageIds \ PagesOf(files, f) :
    LET fs1 == allocatePage(files, f, np)
        a == allocBuf(bufDescTable, bufPool, hashTable, clockHand, fs1)
    IN
    /\ Counted
    /\ IF ~a.ok
       THEN
         /\ bufDescTable' = a.desc
         /\ clockHand' = a.hand
         /\ hashTable' = a.hash
         /\ files' = a.files
         /\ UNCHANGED bufPool
         /\ last' = Call("allocPage", f, np, FALSE, "BufferExceeded", NoFrame,
                         FALSE, 0, a.writes)
       ELSE
         /\ hashTable' = insert(a.hash, f, np, a.frame)
         /\ bufPool' = [bufPool EXCEPT ![a.frame] = filePage(a.files, f, np)]
         /\ bufDescTable' = [a.desc EXCEPT ![a.frame] = Set(f, np)]
         /\ clockHand' = a.hand
         /\ files' = a.files
         /\ last' = Call("allocPage", f, np, FALSE, "none", a.frame, FALSE, 1,
                         a.writes)

\* ------------------------------------------------------------- disposePage
\* disposePage as it would be if line 198 only reset the valid flag of the
\* descriptor instead of calling Clear().
disposePage_onlyInvalidate(f, p) ==
  LET fr == lookup(hashTable, f, p) IN
  /\ Counted
  /\ IF fr # NoFrame
     THEN /\ bufDescTable' = [bufDescTable EXCEPT ![fr].valid = FALSE]
          /\ hashTable' = remove(hashTable, f, p)
     ELSE UNCHANGED <<bufDescTable, hashTable>>
  /\ files' = deletePage(files, f, p)
  /\ UNCHANGED <<bufPool, clockHand>>
  /\ last' = Call("disposePage", f, p, FALSE, "none", fr, fr # NoFrame, 0, 0)

\* disposePage as it would be with the pin guard of flushFile: a pinned
\* resident page makes it throw PagePinnedException.
disposePage_pinCheck(f, p) ==
  LET fr == lookup(hashTable, f, p) IN
  /\ Counted
  /\ IF fr # NoFrame /\ bufDescTable[fr].pinCnt > 0
     THEN /\ UNCHANGED <<bufDescTable, hashTable, files>>
          /\ last' = Call("disposePage", f, p, FALSE, "PagePinned", fr, TRUE,
                          0, 0)
     ELSE /\ IF fr # NoFrame
             THEN /\ bufDescTable' = [bufDescTable EXCEPT ![fr] = Clear]
                  /\ hashTable' = remove(hashTable, f, p)
             ELSE UNCHANGED <<bufDescTable, hashTable>>
          /\ files' = deletePage(files, f, p)
          /\ last' = Call("disposePage", f, p, FALSE, "none", fr,
                          fr # NoFrame, 0, 0)
  /\ UNCHANGED <<bufPool, clockHand>>

disposePage(f, p) ==
  LET fr == lookup(hashTable, f, p) IN
  /\ Counted
  /\ IF fr # NoFrame
     THEN /\ bufDescTable' = [bufDescTable EXCEPT ![fr] = Clear]
          /\ hashTable' = remove(hashTable, f, p)
     ELSE UNCHANGED <<bufDescTable, hashTable>>
  /\ files' = deletePage(files, f, p)
  /\ UNCHANGED <<bufPool, clockHand>>
  /\ last' = Call("disposePage", f, p, FALSE, "none", fr, fr # NoFrame, 0, 0)

\* -------------------------------------------------------------- the caller
\* A holder of the Page* returned by readPage / allocPage changes the
\* contents of the buffer while it holds a pin on it.
modifyPage(fr, v) ==
  /\ Counted
  /\ bufDescTable[fr].valid
  /\ bufDescTable[fr].pinCnt > 0
  /\ bufPool[fr].data # v
  /\ bufPool' = [bufPool EXCEPT ![fr].data = v]
  /\ UNCHANGED <<bufDescTable, hashTable, clockHand, files>>
  /\ last' = Call("modifyPage", bufDescTable[fr].file, bufDescTable[fr].pageNo,
                  FALSE, "none", fr, TRUE, 0, 0)

Next ==
  \/ \E f \in Files, p \in PageIds : readPage(f, p)
  \/ \E f \in Files, p \in PageIds, d \in BOOLEAN : unPinPage(f, p, d)
  \/ \E f \in Files : flushFile(f)
  \/ \E f \in Files : allocPage(f)
  \/ \E f \in Files, p \in PageIds : disposePage(f, p)
  \/ \E fr \in Frames, v \in Data : modifyPage(fr, v)

Spec == Init /\ [][Next]_vars

\* ------------------------------------------------ a failing file->readPage
\* readPage when the file->readPage of line 112 throws on a page the file
\* holds (an I/O failure): allocBuf has run, nothing after line 112 has.
readPageReadFails(f, p) ==
  LET a == allocBuf(bufDescTable, bufPool, hashTable, clockHand, files) IN
  /\ Counted
  /\ lookup(hashTable, f, p) = NoFrame
  /\ a.ok
  /\ a.files[f][p] # NoPage
  /\ bufDescTable' = a.desc
  /\ clockHand' = a.hand
  /\ hashTable' = a.hash
  /\ files' = a.files
  /\ UNCHANGED bufPool
  /\ last' = Call("readPage", f, p, FALSE, "IOError", a.frame, FALSE, 1,
                  a.writes)

\* allocPage when the file->readPage of line 179 throws: allocatePage,
\* allocBuf and the hashTable->insert of line 178 have run, Set has not.
allocPageReadFails(f) ==
  \E np \in PageIds \ PagesOf(files, f) :
    LET fs1 == allocatePage(files, f, np)
        a == allocBuf(bufDescTable, bufPool, hashTable, clockHand, fs1)
    IN
    /\ Counted
    /\ a.ok
    /\ hashTable' = insert(a.hash, f, np, a.frame)
    /\ bufDescTable' = a.desc
    /\ clockHand' = a.hand
    /\ files' = a.files
    /\ UNCHANGED bufPool
    /\ last' = Call("allocPage", f, np, FALSE, "IOError", a.frame, FALSE, 1,
                    a.writes)

NextIO ==
  \/ Next
  \/ \E f \in Files, p \in PageIds : readPageReadFails(f, p)
  \/ \E f \in Files : allocPageReadFails(f)

\* The manager over a file whose readPage may fail.
SpecIO == Init /\ [][NextIO]_vars

\* ================================================================= claims
\* The identity index answers for the page the last call was about, before
\* and after the call.
Pinned(i) == bufDescTable[i].valid /\ bufDescTable[i].pinCnt > 0

IsMiss == lookup(hashTable, last'.file, last'.pageNo) = NoFrame

\* C1: a frame that is pinned before a readPage, allocPage, unPinPage or
\* flushFile call still holds the same page, under the same index entry and
\* with the same contents, after it; its pin count changes only by the hit or
\* the unpin of that very page, and the frame handed out by the allocator had
\* pin count 0.
C1_PinnedStaysResident ==
  [][ last'.op \in {"readPage", "allocPage", "unPinPage", "flushFile"} =>
        /\ \A i \in Frames : Pinned(i) =>
             /\ bufDescTable'[i].valid
             /\ bufDescTable'[i].file = bufDescTable[i].file
             /\ bufDescTable'[i].pageNo = bufDescTable[i].pageNo
             /\ lookup(hashTable', bufDescTable[i].file, bufDescTable[i].pageNo) = i
             /\ bufPool'[i] = bufPool[i]
             /\ (bufDescTable'[i].pinCnt # bufDescTable[i].pinCnt =>
                   /\ last'.op \in {"readPage", "unPinPage"}
                   /\ last'.frame = i)
        /\ (last'.op \in {"readPage", "allocPage"} /\ ~last'.hit
              /\ last'.frame # NoFrame) =>
             bufDescTable[last'.frame].pinCnt = 0
    ]_vars

\* C1 witness: an allocation wrote back and evicted a victim while another
\* frame was held pinned.
C1_Witness ==
  /\ last.op \in {"readPage", "allocPage"}
  /\ last.err = "none" /\ ~last.hit /\ last.writes = 1
  /\ \E i \in Frames : i # last.frame /\ Pinned(i)

\* C2: when some frame is invalid or unpinned, a readPage miss or an
\* allocPage does not fail with BufferExceededException.
C2_ExceededOnlyIfAllPinned ==
  [][ ( /\ last'.op \in {"readPage", "allocPage"}
        /\ ~last'.hit
        /\ \E i \in Frames : ~bufDescTable[i].valid \/ bufDescTable[i].pinCnt = 0 )
      => last'.err # "BufferExceeded"
    ]_vars

\* C3: with every frame valid and pinned, a readPage of a page that is not
\* resident fails with BufferExceededException and changes no valid flag,
\* identity, pin count or dirty flag, nor the index, the buffers or the files.
C3_ExceededEvictsNothing ==
  [][ ( /\ \A i \in Frames : Pinned(i)
        /\ last'.op = "readPage"
        /\ IsMiss )
      => /\ last'.err = "BufferExceeded"
         /\ \A i \in Frames :
              /\ bufDescTable'[i].valid = bufDescTable[i].valid
              /\ bufDescTable'[i].file = bufDescTable[i].file
              /\ bufDescTable'[i].pageNo = bufDescTable[i].pageNo
              /\ bufDescTable'[i].pinCnt = bufDescTable[i].pinCnt
              /\ bufDescTable'[i].dirty = bufDescTable[i].dirty
         /\ UNCHANGED <<hashTable, bufPool, files>>
    ]_vars

\* C3 witness: a readPage has failed with BufferExceededException on a pool
\* whose frames are all pinned.
C3_Witness ==
  /\ last.op = "readPage" /\ last.err = "BufferExceeded"
  /\ \A i \in Frames : Pinned(i)

\* C4: unPinPage of a resident, pinned page lowers pinCnt by one and leaves
\* the dirty flag at (old dirty flag or the dirty argument).
C4_UnpinDirtyOnlyIfAsked ==
  [][ ( /\ last'.op = "unPinPage"
        /\ ~IsMiss
        /\ bufDescTable[lookup(hashTable, last'.file, last'.pageNo)].pinCnt > 0 )
      => LET fr == lookup(hashTable, last'.file, last'.pageNo) IN
         /\ bufDescTable'[fr].pinCnt = bufDescTable[fr].pinCnt - 1
         /\ bufDescTable'[fr].dirty = (bufDescTable[fr].dirty \/ last'.dirty)
    ]_vars

\* C5: unPinPage of a page with no index entry raises no error and changes
\* no descriptor, buffer, index entry, clock hand or file.
C5_UnpinMissIsNoOp ==
  [][ (last'.op = "unPinPage" /\ IsMiss)
      => /\ last'.err = "none"
         /\ UNCHANGED <<bufDescTable, bufPool, hashTable, clockHand, files>>
    ]_vars

\* C5 witness: an unPinPage found no index entry while the pool held pages.
C5_Witness ==
  /\ last.op = "unPinPage" /\ last.frame = NoFrame /\ last.err = "none"
  /\ \E i \in Frames : bufDescTable[i].valid

\* C6: unPinPage of a resident page with pinCnt 0 fails with
\* PageNotPinnedException and leaves pinCnt at 0 and the dirty flag as it was;
\* no pin count is ever negative.
C6_UnpinAtZeroFails ==
  /\ [][ ( /\ last'.op = "unPinPage"
           /\ ~IsMiss
           /\ bufDescTable[lookup(hashTable, last'.file, last'.pageNo)].pinCnt = 0 )
         => LET fr == lookup(hashTable, last'.file, last'.pageNo) IN
            /\ last'.err = "PageNotPinned"
            /\ bufDescTable'[fr].pinCnt = 0
            /\ bufDescTable'[fr].dirty = bufDescTable[fr].dirty
       ]_vars
  /\ [](\A i \in Frames : bufDescTable[i].pinCnt >= 0)

\* C6 witness: an unPinPage has failed with PageNotPinnedException.
C6_Witness ==
  /\ last.op = "unPinPage" /\ last.err = "PageNotPinned"
  /\ bufDescTable[last.frame].valid /\ bufDescTable[last.frame].pinCnt = 0

\* C7: a readPage that finds the page in the index returns its frame, adds
\* one to its pinCnt, sets its reference bit, reads and writes no file and
\* changes nothing else; a readPage right after the miss that loaded the same
\* page hits the same frame and leaves pinCnt = 2.
C7_HitPinsSameFrame ==
  [][ /\ (last'.op = "readPage" /\ ~IsMiss) =>
           LET fr == lookup(hashTable, last'.file, last'.pageNo) IN
           /\ last'.err = "none" /\ last'.frame = fr
           /\ bufDescTable' = [bufDescTable EXCEPT
                                 ![fr].pinCnt = bufDescTable[fr].pinCnt + 1,
                                 ![fr].refbit = TRUE]
           /\ last'.reads = 0 /\ last'.writes = 0
           /\ UNCHANGED <<bufPool, hashTable, clockHand, files>>
      /\ ( /\ last.op = "readPage" /\ last.err = "none" /\ ~last.hit
           /\ last'.op = "readPage"
           /\ last'.file = last.file /\ last'.pageNo = last.pageNo ) =>
           /\ last'.frame = last.frame
           /\ bufDescTable'[last.frame].pinCnt = 2
    ]_vars

\* C7 witness: a readPage hit has raised a pin count to 2.
C7_Witness ==
  /\ last.op = "readPage" /\ last.hit /\ last.err = "none"
  /\ bufDescTable[last.frame].pinCnt = 2

\* C8: a successful readPage miss leaves the chosen frame valid with the
\* requested identity, pinCnt 1, clean, reference bit set, the index mapping
\* the page to it and the buffer holding the page as the file has it, after
\* exactly one file read and at most one file write.
C8_MissLoadsPage ==
  [][ (last'.op = "readPage" /\ IsMiss /\ last'.err = "none") =>
        LET fr == last'.frame IN
        /\ fr \in Frames
        /\ bufDescTable'[fr].valid
        /\ bufDescTable'[fr].file = last'.file
        /\ bufDescTable'[fr].pageNo = last'.pageNo
        /\ bufDescTable'[fr].pinCnt = 1
        /\ bufDescTable'[fr].dirty = FALSE
        /\ bufDescTable'[fr].refbit = TRUE
        /\ lookup(hashTable', last'.file, last'.pageNo) = fr
        /\ bufPool'[fr] = filePage(files', last'.file, last'.pageNo)
        /\ last'.reads = 1
        /\ last'.writes <= 1
    ]_vars

\* C8 witness: a readPage miss has succeeded after writing back a victim.
C8_Witness ==
  /\ last.op = "readPage" /\ ~last.hit /\ last.err = "none"
  /\ last.reads = 1 /\ last.writes = 1

\* C9: a successful allocPage returns a page number the file did not hold
\* before and holds now, in a frame that is valid with that identity,
\* pinCnt 1 and clean, registered in the index, after at most one write back.
C9_AllocPageLoadsNewPage ==
  [][ (last'.op = "allocPage" /\ last'.err = "none") =>
        LET fr == last'.frame IN
        /\ fr \in Frames
        /\ last'.pageNo \notin PagesOf(files, last'.file)
        /\ last'.pageNo \in PagesOf(files', last'.file)
        /\ bufDescTable'[fr].valid
        /\ bufDescTable'[fr].file = last'.file
        /\ bufDescTable'[fr].pageNo = last'.pageNo
        /\ bufDescTable'[fr].pinCnt = 1
        /\ bufDescTable'[fr].dirty = FALSE
        /\ lookup(hashTable', last'.file, last'.pageNo) = fr
        /\ last'.writes <= 1
    ]_vars

\* C9 witness: an allocPage has succeeded after writing back a victim.
C9_Witness ==
  /\ last.op = "allocPage" /\ last.err = "none" /\ last.writes = 1
  /\ bufDescTable[last.frame].pinCnt = 1

\* C10: after a flushFile that returns without error no frame carries the
\* file, the index has no entry of the file, every page of the file that was
\* resident and dirty is in the file with the contents its buffer had, and
\* the frames of other files are as before.
C10_FlushFileEmptiesFile ==
  [][ (last'.op = "flushFile" /\ last'.err = "none") =>
        LET f == last'.file IN
        /\ \A i \in Frames :
             ~(bufDescTable'[i].valid /\ bufDescTable'[i].file = f)
        /\ \A p \in PageIds : lookup(hashTable', f, p) = NoFrame
        /\ \A i \in Frames :
             ( /\ bufDescTable[i].valid /\ bufDescTable[i].file = f
               /\ bufDescTable[i].dirty ) =>
               files'[f][bufDescTable[i].pageNo] = bufPool[i].data
        /\ \A i \in Frames :
             bufDescTable[i].file # f =>
               /\ bufDescTable'[i] = bufDescTable[i]
               /\ bufPool'[i] = bufPool[i]
    ]_vars

\* C10 witness: a flushFile has succeeded and written a page while a page of
\* another file stayed resident.
C10_Witness ==
  /\ last.op = "flushFile" /\ last.err = "none" /\ last.writes >= 1
  /\ \E i \in Frames : bufDescTable[i].valid /\ bufDescTable[i].file # last.file

\* The frames that hold a pinned page of file f, and the first of them.
PinnedOf(f) ==
  {i \in Frames : bufDescTable[i].file = f /\ bufDescTable[i].pinCnt > 0}

FirstPinnedOf(f) ==
  CHOOSE k \in PinnedOf(f) : \A j \in PinnedOf(f) : k <= j

\* C11: a flushFile of a file with a pinned resident page fails with
\* PagePinnedException at the first pinned frame of the file; the frames of
\* the file below it are written back if dirty, dropped from the index and
\* emptied, that frame and every frame above it are as before, and so are
\* the frames of other files.
C11_FlushFileStopsAtFirstPinned ==
  [][ (last'.op = "flushFile" /\ PinnedOf(last'.file) # {}) =>
        LET f == last'.file
            k == FirstPinnedOf(f)
        IN
        /\ last'.err = "PagePinned"
        /\ last'.frame = k
        /\ \A i \in Frames :
             IF i < k /\ bufDescTable[i].file = f
             THEN /\ bufDescTable'[i] = Clear
                  /\ lookup(hashTable', f, bufDescTable[i].pageNo) = NoFrame
                  /\ bufDescTable[i].dirty =>
                       files'[f][bufDescTable[i].pageNo] = bufPool[i].data
             ELSE /\ bufDescTable'[i] = bufDescTable[i]
                  /\ (bufDescTable[i].valid =>
                        lookup(hashTable', bufDescTable[i].file,
                               bufDescTable[i].pageNo) = i)
        /\ UNCHANGED <<bufPool, clockHand>>
    ]_vars

\* C11 witness: a flushFile has stopped at a pinned frame above frame 0 after
\* it wrote back and emptied frame 0.
C11_Witness ==
  /\ last.op = "flushFile" /\ last.err = "PagePinned"
  /\ last.frame > 0 /\ last.writes >= 1
  /\ ~bufDescTable[0].valid
  /\ Pinned(last.frame)

\* The last call ran allocBuf and allocBuf took a frame that held a page.
Evicts ==
  /\ last'.op \in {"readPage", "allocPage"}
  /\ ~last'.hit
  /\ last'.frame # NoFrame
  /\ bufDescTable[last'.frame].valid

\* C12: when the allocator takes the frame of a dirty page, the call writes
\* exactly one page, the file then holds the victim with the contents its
\* buffer had, and the victim has left the index and the frame; a victim
\* that is not dirty is not written.
C12_DirtyVictimWrittenOnce ==
  [][ Evicts =>
        LET fr == last'.frame
            vf == bufDescTable[fr].file
            vp == bufDescTable[fr].pageNo
        IN
        /\ lookup(hashTable', vf, vp) = NoFrame
        /\ ~( /\ bufDescTable'[fr].valid
              /\ bufDescTable'[fr].file = vf
              /\ bufDescTable'[fr].pageNo = vp )
        /\ IF bufDescTable[fr].dirty
           THEN /\ last'.writes = 1
                /\ files'[vf][vp] = bufPool[fr].data
           ELSE /\ last'.writes = 0
                /\ files'[vf][vp] = files[vf][vp]
    ]_vars

\* C12 witness: an allocation has written back a victim whose buffer the
\* caller had changed: the page is out of the pool and the file holds the
\* changed contents.
C12_Witness ==
  /\ last.op \in {"readPage", "allocPage"} /\ ~last.hit
  /\ last.frame # NoFrame /\ last.writes = 1
  /\ \E f \in Files, p \in PageIds :
       /\ files[f][p] = 1
       /\ lookup(hashTable, f, p) = NoFrame

\* C13: disposePage raises no error and writes no page; a resident page,
\* pinned or not, dirty or not, loses its frame (reset to empty) and its
\* index entry; resident or not, the page is then gone from the file, and
\* nothing else in the files or the pool changes.
C13_DisposeNeverWritesBack ==
  [][ last'.op = "disposePage" =>
        LET f == last'.file
            p == last'.pageNo
            fr == lookup(hashTable, f, p)
        IN
        /\ last'.err = "none"
        /\ last'.writes = 0
        /\ files' = [files EXCEPT ![f][p] = NoPage]
        /\ lookup(hashTable', f, p) = NoFrame
        /\ \A i \in Frames :
             bufDescTable'[i] = IF i = fr THEN Clear ELSE bufDescTable[i]
        /\ \A k \in Files \X PageIds :
             k # <<f, p>> => hashTable'[k] = hashTable[k]
        /\ UNCHANGED <<bufPool, clockHand>>
    ]_vars

\* C13 witness: a disposePage has emptied the frame of a resident page whose
\* buffer differed from the file, and the page is gone from the file.
C13_Witness ==
  /\ last.op = "disposePage" /\ last.hit /\ last.err = "none"
  /\ ~bufDescTable[last.frame].valid
  /\ bufPool[last.frame].num = last.pageNo
  /\ bufPool[last.frame].data = 1
  /\ files[last.file][last.pageNo] = NoPage

\* C14: in every state the manager is in after a call, a frame that is not
\* valid has pinCnt 0 and is not dirty.
C14_InvalidFrameIsBlank ==
  \A i \in Frames :
    ~bufDescTable[i].valid =>
      bufDescTable[i].pinCnt = 0 /\ bufDescTable[i].dirty = FALSE

\* C14 witness: a call has failed (PagePinnedException of a flushFile that
\* had emptied a frame, or a readPage whose allocation had evicted a victim)
\* and left an empty frame behind.
C14_Witness ==
  /\ \/ last.op = "flushFile" /\ last.err = "PagePinned" /\ last.writes >= 1
     \/ last.op = "readPage" /\ last.err = "InvalidPage" /\ last.writes = 1
  /\ \E i \in Frames : ~bufDescTable[i].valid
  /\ \E i \in Frames : Pinned(i)

\* C15: the index maps (file, page) to frame i exactly when frame i is valid
\* with identity (file, page), and no two valid frames carry the same
\* identity.
C15_IndexAgreesWithDescriptors ==
  /\ \A f \in Files, p \in PageIds, i \in Frames :
       lookup(hashTable, f, p) = i <=>
         ( /\ bufDescTable[i].valid
           /\ bufDescTable[i].file = f
           /\ bufDescTable[i].pageNo = p )
  /\ \A f \in Files, p \in PageIds :
       lookup(hashTable, f, p) \in Frames \cup {NoFrame}
  /\ \A i, j \in Frames :
       ( /\ bufDescTable[i].valid /\ bufDescTable[j].valid
         /\ bufDescTable[i].file = bufDescTable[j].file
         /\ bufDescTable[i].pageNo = bufDescTable[j].pageNo ) => i = j

\* C15 witness: the pool is full of valid frames after an allocation that
\* evicted a victim, and a page of the pool is out of the index.
C15_Witness ==
  /\ last.op \in {"readPage", "allocPage"} /\ last.err = "none"
  /\ ~last.hit /\ last.writes = 1
  /\ \A i \in Frames : bufDescTable[i].valid
  /\ lookup(hashTable, last.file, last.pageNo) = last.frame

\* C16: a pin count rises only in the frame a successful readPage or
\* allocPage returns (by one on a hit, from 0 to 1 on a miss or an
\* allocPage), and falls only by one, in the frame of the page an unPinPage
\* names.
C16_PinCountChangesOnlyByFetchAndUnpin ==
  [][ \A i \in Frames :
        /\ bufDescTable'[i].pinCnt > bufDescTable[i].pinCnt =>
             /\ last'.op \in {"readPage", "allocPage"}
             /\ last'.err = "none"
             /\ last'.frame = i
             /\ IF last'.hit
                THEN bufDescTable'[i].pinCnt = bufDescTable[i].pinCnt + 1
                ELSE bufDescTable[i].pinCnt = 0 /\ bufDescTable'[i].pinCnt = 1
        /\ bufDescTable'[i].pinCnt < bufDescTable[i].pinCnt =>
             /\ last'.op = "unPinPage"
             /\ last'.err = "none"
             /\ last'.frame = i
             /\ bufDescTable'[i].pinCnt = bufDescTable[i].pinCnt - 1
    ]_vars

\* The frames that hold a page.
ValidFrames == {i \in Frames : bufDescTable[i].valid}

\* C17: as long as every call since construction has loaded a page (k calls,
\* k frames in use, k <= NumBufs), the frames in use are 0 .. k-1, the last
\* call took frame k-1 without a write back and the hand is on k-1, so on
\* NumBufs-1 when the pool is full.  When every frame is valid, unpinned and
\* referenced, the next allocation does not fail with BufferExceeded: it
\* clears the reference bit of every frame and takes the frame just after
\* the hand, frame 0 when the hand was on NumBufs-1.
C17_FillInOrderThenSecondPass ==
  /\ [](\A k \in 1 .. NumBufs :
          (calls = k /\ Cardinality(ValidFrames) = k) =>
            /\ ValidFrames = 0 .. (k - 1)
            /\ clockHand = k - 1
            /\ last.op \in {"readPage", "allocPage"}
            /\ last.frame = k - 1
            /\ last.writes = 0)
  /\ [][ ( /\ \A i \in Frames :
                /\ bufDescTable[i].valid
                /\ bufDescTable[i].pinCnt = 0
                /\ bufDescTable[i].refbit
           /\ last'.op \in {"readPage", "allocPage"}
           /\ ~last'.hit )
         => LET v == IF clockHand = NumBufs - 1 THEN 0 ELSE clockHand + 1 IN
            /\ last'.err # "BufferExceeded"
            /\ last'.frame = v
            /\ clockHand' = v
            /\ lookup(hashTable', bufDescTable[v].file, bufDescTable[v].pageNo)
                 = NoFrame
            /\ \A i \in Frames \ {v} :
                 bufDescTable'[i] = [bufDescTable[i] EXCEPT !.refbit = FALSE]
       ]_vars

\* C17 witness: NumBufs loads, NumBufs unpins and one more allocation since
\* construction: the allocation evicted frame 0, the hand is on frame 0 and
\* every other frame is still valid, unpinned, with its reference bit clear.
C17_Witness ==
  /\ calls = 2 * NumBufs + 1
  /\ last.op \in {"readPage", "allocPage"} /\ ~last.hit
  /\ last.frame = 0 /\ last.writes = 1 /\ clockHand = 0
  /\ \A i \in Frames \ {0} :
       /\ bufDescTable[i].valid
       /\ bufDescTable[i].pinCnt = 0
       /\ ~bufDescTable[i].refbit

\* C18: after a readPage miss or an allocPage in which file->readPage has
\* failed, the frame the allocator chose is empty and the index has no entry
\* for the page of the call.
C18_FailedReadLeavesIndexConsistent ==
  [][ ( /\ last'.op \in {"readPage", "allocPage"}
        /\ last'.err \in {"InvalidPage", "IOError"} )
      => /\ ~bufDescTable'[last'.frame].valid
         /\ lookup(hashTable', last'.file, last'.pageNo) = NoFrame
    ]_vars

\* The call about to end repeats a readPage that has just failed with
\* BufferExceededException although some frame was empty or unpinned.
RetriesExceededRead ==
  /\ last.op = "readPage" /\ last.err = "BufferExceeded"
  /\ \E i \in Frames : ~bufDescTable[i].valid \/ bufDescTable[i].pinCnt = 0
  /\ last'.op = "readPage"
  /\ last'.file = last.file /\ last'.pageNo = last.pageNo

\* C19 as stated: the readPage repeated right after a BufferExceeded failure,
\* with some frame unpinned, succeeds.
C19_RetrySucceeds ==
  [][ RetriesExceededRead => last'.err = "none" ]_vars

\* C19 as amended: after an allocation that failed with BufferExceeded every
\* frame is valid with its reference bit clear; the readPage repeated right
\* after such a failure, with some frame unpinned, does not fail with
\* BufferExceeded, and it succeeds when the file holds the page.
C19_RetryFindsFrame ==
  /\ []( (last.op \in {"readPage", "allocPage"} /\ last.err = "BufferExceeded")
         => \A i \in Frames :
              bufDescTable[i].valid /\ ~bufDescTable[i].refbit )
  /\ [][ RetriesExceededRead =>
           /\ last'.err # "BufferExceeded"
           /\ last'.frame \in Frames
           /\ bufDescTable[last'.frame].pinCnt = 0
           /\ (files[last.file][last.pageNo] # NoPage => last'.err = "none")
       ]_vars

\* C19 witness: a readPage has succeeded as the repeat of a readPage that had
\* failed with BufferExceeded; it took the frame of a victim.
C19_Witness ==
  /\ last.again /\ last.op = "readPage" /\ last.err = "none"
  /\ ~last.hit /\ last.writes = 1
  /\ \E i \in Frames : i # last.frame /\ Pinned(i)

\* C20: an allocPage that fails with BufferExceededException leaves every
\* file with the pages, and the page contents, it had before the call.
C20_FailedAllocPageLeavesFile ==
  [][ (last'.op = "allocPage" /\ last'.err = "BufferExceeded") =>
        /\ \A f \in Files : PagesOf(files', f) = PagesOf(files, f)
        /\ files' = files
    ]_vars
====
